---- MODULE Spec2Model ----
(***************************************************************************)
(* Execution API of one task instance: ti_run, ti_update_state and         *)
(* ti_heartbeat of airflow/api_fastapi/execution_api/routes/               *)
(* task_instances.py, as one state machine.                                *)
(*                                                                         *)
(* Every handler starts with SELECT ... FOR UPDATE on the row of the task  *)
(* instance, which is where a request can be suspended: a handler is       *)
(* therefore two steps, the locked read (Select) and the rest of the body  *)
(* through the end of the unit of work (RunBody, UpdateStateBody,          *)
(* HeartbeatBody), which also releases the row lock.                       *)
(***************************************************************************)
EXTENDS Integers, Sequences, FiniteSets, TLC

\* ------------------------------------------------------------------ bounds
\* Number of requests issued in one behaviour.
MaxCalls == 2
\* Last reading of the clock.
MaxTime == 1

\* ------------------------------------------------------------------ values
\* A NULL column is the empty tuple, a set column v is <<v>>.
NULL == <<>>
Some(v) == <<v>>

QUEUED == "queued"
RUNNING == "running"
SUCCESS == "success"
FAILED == "failed"
SKIPPED == "skipped"
DEFERRED == "deferred"
UP_FOR_RESCHEDULE == "up_for_reschedule"

\* TITerminalStatePayload.state
TerminalStates == {SUCCESS, FAILED, SKIPPED}

\* The identifier of the row that exists and one that resolves to no row.
TI_ID == "T1"
MISSING_ID == "T0"
TaskInstanceIds == {TI_ID, MISSING_ID}

\* Worker identities (hostname, unixname, pid): two processes of one host
\* and a process of another host with the pid of the first.
Workers ==
    { [hostname |-> "h1", unixname |-> "u1", pid |-> 1000],
      [hostname |-> "h1", unixname |-> "u1", pid |-> 2000],
      [hostname |-> "h2", unixname |-> "u2", pid |-> 1000] }

Calls == 1..MaxCalls

VARIABLES
    ti,           \* the row of TI_ID in the task_instance table
    triggers,     \* the trigger table, in insertion order
    reschedules,  \* the task_reschedule table, in insertion order
    dagRunExists, \* whether the dag_run row (dag_id, run_id) of the row exists
    lock,         \* the request holding the row lock of TI_ID, 0 when free
    calls,        \* the requests: payload, position, values read, response
    now,          \* timezone.utcnow()
    order,        \* the requests in the order their unit of work ended
    serial,       \* the tables after the requests of order, run one by one
    created       \* the tables as the first request finds them

vars == <<ti, triggers, reschedules, dagRunExists, lock, calls, now, order, serial,
          created>>

\* ------------------------------------------------------------------ responses
\* A response is its HTTP status, the "reason" of its detail and the rest of
\* the detail (always a record).
NoDetail == [empty |-> TRUE]
NoResponse == [code |-> 0, reason |-> "none", detail |-> NoDetail]
Ok(code, detail) == [code |-> code, reason |-> "ok", detail |-> detail]
NotFound == [code |-> 404, reason |-> "not_found", detail |-> NoDetail]
Conflict(reason, detail) == [code |-> 409, reason |-> reason, detail |-> detail]
InternalError == [code |-> 500, reason |-> "internal_error", detail |-> NoDetail]

\* ------------------------------------------------------------------ the store
\* update(TI).where(TI.id == ti_id_str).values(...): the columns of upd
\* replace those of the row, the others keep their value.
ApplyUpdate(row, upd) ==
    [col \in DOMAIN row |-> IF col \in DOMAIN upd THEN upd[col] ELSE row[col]]

\* The tables as one value.
Tables(row, trg, rsch) == [ti |-> row, triggers |-> trg, reschedules |-> rsch]

\* The row as upstream scheduling creates it: QUEUED, no holder, nothing set.
InitialRow ==
    [ state |-> QUEUED,
      task_id |-> "task", dag_id |-> "dag", run_id |-> "run",
      try_number |-> 1, map_index |-> -1,
      hostname |-> NULL, unixname |-> NULL, pid |-> NULL,
      start_date |-> NULL, end_date |-> NULL, duration |-> NULL,
      next_method |-> NULL, next_kwargs |-> NULL,
      trigger_id |-> NULL, trigger_timeout |-> NULL,
      last_heartbeat_at |-> NULL ]

\* ------------------------------------------------------------------ requests
\* The dates workers send are readings of their own clocks.
\* TIEnterRunningPayload, sent by the first process of each host.
RunRequests ==
    { [op |-> "run", id |-> TI_ID, hostname |-> w.hostname, unixname |-> w.unixname,
       pid |-> w.pid, start_date |-> 1] : w \in {x \in Workers : x.pid = 1000} }

\* TITerminalStatePayload
TerminalRequests ==
    { [op |-> "update", kind |-> "terminal", id |-> TI_ID, state |-> s,
       end_date |-> 3] : s \in TerminalStates }

\* TIDeferredStatePayload: trigger_timeout is a duration or absent.
DeferredRequests ==
    { [op |-> "update", kind |-> "deferred", id |-> TI_ID, classpath |-> "cp",
       trigger_kwargs |-> "kw", next_method |-> "execute_complete",
       trigger_timeout |-> d] : d \in {NULL, Some(1)} }

\* TIRescheduleStatePayload
RescheduleRequests ==
    { [op |-> "update", kind |-> "reschedule", id |-> TI_ID, end_date |-> 3,
       reschedule_date |-> 4] }

\* TIHeartbeatInfo
HeartbeatRequests ==
    { [op |-> "heartbeat", id |-> TI_ID, hostname |-> w.hostname, pid |-> w.pid] :
        w \in Workers }

\* The requests on the row that exists.
RowRequests ==
    RunRequests \cup TerminalRequests \cup DeferredRequests
        \cup RescheduleRequests \cup HeartbeatRequests

\* One request of each handler on an identifier that resolves to no row.
MissingRequests ==
    { [r EXCEPT !.id = MISSING_ID] :
        r \in { q \in RowRequests :
                   /\ q.op \in {"run", "heartbeat"} => q.pid = 1000 /\ q.hostname = "h1"
                   /\ q.op = "update" => q.kind = "deferred" /\ q.trigger_timeout = NULL } }

Requests == RowRequests \cup MissingRequests

NoRequest == [op |-> "none", id |-> "none"]
NoRead == [state |-> "none"]

\* ------------------------------------------------------------------ handlers
\* What a handler leaves: the tables and the response.
Result(db, out) == [db |-> db, out |-> out]

\* The unit of work of the session: committed when the handler returns,
\* rolled back when it raises.
EndUnitOfWork(before, after, out) ==
    Result(IF out.code < 400 THEN after ELSE before, out)

\* select(TI.state, TI.dag_id, TI.run_id) ... with_for_update()
RunRead(row) == [state |-> row.state, dag_id |-> row.dag_id, run_id |-> row.run_id]

\* select(TI.state) ... with_for_update()
UpdateStateRead(row) == [state |-> row.state]

\* select(TI.state, TI.hostname, TI.pid) ... with_for_update()
HeartbeatRead(row) == [state |-> row.state, hostname |-> row.hostname, pid |-> row.pid]

\* The state check that refuses only a row that is RUNNING.
RunAllowedUnlessRunning(previous_state) == previous_state # RUNNING

\* if previous_state != State.QUEUED: raise 409
RunAllowed(previous_state) == previous_state = QUEUED

\* ti_run that answers a dag run it does not find as it answers a task
\* instance it does not find.
TiRunMissingRunNotFound(prev, req, db, dr, fail) ==
    IF ~RunAllowed(prev.state)
    THEN EndUnitOfWork(db, db,
             Conflict("invalid_state", [previous_state |-> prev.state]))
    ELSE LET query == [end_date |-> NULL, hostname |-> Some(req.hostname),
                       unixname |-> Some(req.unixname), pid |-> Some(req.pid),
                       state |-> RUNNING, start_date |-> Some(req.start_date)]
             after == [db EXCEPT !.ti = ApplyUpdate(db.ti, query)]
         IN  IF fail THEN EndUnitOfWork(db, after, InternalError)
             ELSE IF ~dr THEN EndUnitOfWork(db, after, NotFound)
             ELSE EndUnitOfWork(db, after,
                      Ok(200, [dag_id |-> prev.dag_id, run_id |-> prev.run_id]))

\* ti_run after the locked read. prev is the row as read under the lock,
\* dr whether the dag run is found, fail whether the storage raises.
TiRun(prev, req, db, dr, fail) ==
    IF ~RunAllowed(prev.state)
    THEN EndUnitOfWork(db, db,
             Conflict("invalid_state", [previous_state |-> prev.state]))
    ELSE LET data == [state |-> RUNNING, hostname |-> Some(req.hostname),
                      unixname |-> Some(req.unixname), pid |-> Some(req.pid),
                      start_date |-> Some(req.start_date)]
             query == [end_date |-> NULL, hostname |-> Some(req.hostname),
                       unixname |-> Some(req.unixname), pid |-> Some(req.pid),
                       state |-> RUNNING] @@ data
             after == [db EXCEPT !.ti = ApplyUpdate(db.ti, query)]
         IN  IF fail \/ ~dr
             THEN EndUnitOfWork(db, after, InternalError)
             ELSE EndUnitOfWork(db, after,
                      Ok(200, [dag_id |-> prev.dag_id, run_id |-> prev.run_id]))

\* TI.duration_expression_update(end_date, query, bind): end_date is set and
\* duration is computed by the store from the row's start_date.
DurationExpressionUpdate(end_date, row) ==
    [ end_date |-> Some(end_date),
      duration |-> IF row.start_date = NULL THEN NULL
                   ELSE Some(end_date - row.start_date[1]) ]

\* Trigger(classpath=..., kwargs=...): the constructor is given no id, the
\* new object has none until the session inserts it.
Trigger(classpath, kwargs) == [id |-> NULL, classpath |-> classpath, kwargs |-> kwargs]

\* trigger_row.id as ti_update_state reads it to build the query, after
\* session.add(trigger_row) and before any statement was executed.
TriggerRowId(trigger_row) == trigger_row.id

\* The pending Trigger is inserted when the session next executes a
\* statement; the table assigns the next identifier.
FlushTrigger(trg, trigger_row) ==
    Append(trg, [trigger_row EXCEPT !.id = Some(Len(trg) + 1)])

\* The record built with task_id and dag_id in each other's place.
TaskRescheduleSwapped(task_instance, actual_start_date, end_date, reschedule_date) ==
    [ task_id |-> task_instance.dag_id, dag_id |-> task_instance.task_id,
      run_id |-> task_instance.run_id, try_number |-> task_instance.try_number,
      start_date |-> actual_start_date, end_date |-> end_date,
      reschedule_date |-> reschedule_date, map_index |-> task_instance.map_index ]

\* TaskReschedule(task_id, dag_id, run_id, try_number, start_date, end_date,
\*                reschedule_date, map_index)
TaskReschedule(task_instance, actual_start_date, end_date, reschedule_date) ==
    [ task_id |-> task_instance.task_id, dag_id |-> task_instance.dag_id,
      run_id |-> task_instance.run_id, try_number |-> task_instance.try_number,
      start_date |-> actual_start_date, end_date |-> end_date,
      reschedule_date |-> reschedule_date, map_index |-> task_instance.map_index ]

\* The query of a terminal payload that never clears the continuation.
TerminalQueryKeeps(req, row) ==
    [state |-> req.state] @@ DurationExpressionUpdate(req.end_date, row)

\* The query of a terminal payload that leaves the duration alone.
TerminalQueryNoDuration(req, row) ==
    LET query == [state |-> req.state, end_date |-> Some(req.end_date)]
    IN  IF req.state = FAILED
        THEN [next_method |-> NULL, next_kwargs |-> NULL] @@ query
        ELSE query

\* The query of a terminal payload.
TerminalQuery(req, row) ==
    LET data == [state |-> req.state, end_date |-> Some(req.end_date)]
        query == [state |-> req.state]
                     @@ DurationExpressionUpdate(req.end_date, row) @@ data
    IN  IF req.state = FAILED
        THEN [next_method |-> NULL, next_kwargs |-> NULL] @@ query
        ELSE query

\* The query of a deferred payload.
DeferredQuery(req, trigger_row, t) ==
    LET timeout == IF req.trigger_timeout # NULL
                   THEN Some(t + req.trigger_timeout[1]) ELSE NULL
    IN  [ state |-> DEFERRED,
          trigger_id |-> TriggerRowId(trigger_row),
          next_method |-> Some(req.next_method),
          next_kwargs |-> Some(req.trigger_kwargs),
          trigger_timeout |-> timeout ]

\* The query of a reschedule payload.
RescheduleQuery(req, row) ==
    [state |-> UP_FOR_RESCHEDULE, next_method |-> NULL, next_kwargs |-> NULL]
        @@ DurationExpressionUpdate(req.end_date, row)

\* ti_update_state that stores the Trigger or TaskReschedule in a unit of
\* work of its own, before the update of the row.
TiUpdateStateAddsApart(prev, req, db, t, fail) ==
         LET trigger_row == Trigger(req.classpath, req.trigger_kwargs)
             added ==
                 CASE req.kind = "terminal" -> db
                   [] req.kind = "deferred" ->
                        [db EXCEPT !.triggers = FlushTrigger(@, trigger_row)]
                   [] req.kind = "reschedule" ->
                        [db EXCEPT
                           !.reschedules = Append(@,
                               TaskReschedule(db.ti, t, req.end_date,
                                              req.reschedule_date))]
             query ==
                 CASE req.kind = "terminal" -> TerminalQuery(req, db.ti)
                   [] req.kind = "deferred" -> DeferredQuery(req, trigger_row, t)
                   [] req.kind = "reschedule" -> RescheduleQuery(req, db.ti)
             after == [added EXCEPT !.ti = ApplyUpdate(@, query)]
         IN  IF fail
             THEN EndUnitOfWork(added, after, InternalError)
             ELSE EndUnitOfWork(added, after, Ok(204, NoDetail))

\* ti_update_state after the locked read, at clock reading t. The handler
\* reads previous_state and never tests it: prev decides nothing.
TiUpdateState(prev, req, db, t, fail) ==
         LET trigger_row == Trigger(req.classpath, req.trigger_kwargs)
             after ==
                 CASE req.kind = "terminal" ->
                        [db EXCEPT !.ti = ApplyUpdate(@, TerminalQuery(req, db.ti))]
                   [] req.kind = "deferred" ->
                        [db EXCEPT
                           !.triggers = FlushTrigger(@, trigger_row),
                           !.ti = ApplyUpdate(@, DeferredQuery(req, trigger_row, t))]
                   [] req.kind = "reschedule" ->
                        [db EXCEPT
                           !.reschedules = Append(@,
                               TaskReschedule(db.ti, t, req.end_date,
                                              req.reschedule_date)),
                           !.ti = ApplyUpdate(@, RescheduleQuery(req, db.ti))]
         IN  IF fail
             THEN EndUnitOfWork(db, after, InternalError)
             ELSE EndUnitOfWork(db, after, Ok(204, NoDetail))

\* The identity check on the hostname alone.
OtherHostOnly(prev, req) == prev.hostname # Some(req.hostname)

\* if hostname != ti_payload.hostname or pid != ti_payload.pid
RunningElsewhere(prev, req) ==
    prev.hostname # Some(req.hostname) \/ prev.pid # Some(req.pid)

\* if previous_state != State.RUNNING
NotRunning(prev) == prev.state # RUNNING

\* The heartbeat that also restarts the try.
HeartbeatQueryRestarts(t) ==
    [last_heartbeat_at |-> Some(t), start_date |-> Some(t), end_date |-> NULL]

\* The heartbeat written with a reading of the clock taken at start-up.
StaleHeartbeatQuery(t) == [last_heartbeat_at |-> Some(0)]

\* update(TI)...values(last_heartbeat_at=timezone.utcnow())
HeartbeatQuery(t) == [last_heartbeat_at |-> Some(t)]

\* ti_heartbeat with its two checks in the other order.
TiHeartbeatStateFirst(prev, req, db, t) ==
    IF NotRunning(prev)
    THEN EndUnitOfWork(db, db,
             Conflict("not_running", [current_state |-> prev.state]))
    ELSE IF RunningElsewhere(prev, req)
    THEN EndUnitOfWork(db, db,
             Conflict("running_elsewhere",
                      [current_hostname |-> prev.hostname, current_pid |-> prev.pid]))
    ELSE EndUnitOfWork(db, [db EXCEPT !.ti = ApplyUpdate(@, HeartbeatQuery(t))],
             Ok(204, NoDetail))

\* ti_heartbeat that takes the caller for the holder when the stored
\* identity is another.
TiHeartbeatAdopts(prev, req, db, t) ==
    IF NotRunning(prev)
    THEN EndUnitOfWork(db, db,
             Conflict("not_running", [current_state |-> prev.state]))
    ELSE EndUnitOfWork(db,
             [db EXCEPT !.ti =
                  ApplyUpdate(@, [hostname |-> Some(req.hostname),
                                  pid |-> Some(req.pid)] @@ HeartbeatQuery(t))],
             Ok(204, NoDetail))

\* ti_heartbeat after the locked read, at clock reading t.
TiHeartbeat(prev, req, db, t) ==
    IF RunningElsewhere(prev, req)
    THEN EndUnitOfWork(db, db,
             Conflict("running_elsewhere",
                      [current_hostname |-> prev.hostname, current_pid |-> prev.pid]))
    ELSE IF NotRunning(prev)
    THEN EndUnitOfWork(db, db,
             Conflict("not_running", [current_state |-> prev.state]))
    ELSE EndUnitOfWork(db, [db EXCEPT !.ti = ApplyUpdate(@, HeartbeatQuery(t))],
             Ok(204, NoDetail))

\* The locked read of a handler.
LockedRead(req, row) ==
    CASE req.op = "run" -> RunRead(row)
      [] req.op = "update" -> UpdateStateRead(row)
      [] req.op = "heartbeat" -> HeartbeatRead(row)

\* A handler from its locked read to the end of its unit of work.
Handle(prev, req, db, t, dr, fail) ==
    CASE req.op = "run" -> TiRun(prev, req, db, dr, fail)
      [] req.op = "update" -> TiUpdateState(prev, req, db, t, fail)
      [] req.op = "heartbeat" -> TiHeartbeat(prev, req, db, t)

\* A whole handler run alone on the tables db: the read and the rest see the
\* same row.
Serially(req, db, t, dr, fail) ==
    IF req.id # TI_ID THEN Result(db, NotFound)
    ELSE Handle(LockedRead(req, db.ti), req, db, t, dr, fail)

\* ------------------------------------------------------------------ state
Idle == [pc |-> "idle", req |-> NoRequest, prev |-> NoRead,
         out |-> NoResponse, ser |-> NoResponse]

\* The tables as upstream scheduling leaves them with a new task instance.
CreatedTables == Tables(InitialRow, <<>>, <<>>)

\* The tables after ti_run of the first worker on the new task instance.
StartedTables ==
    TiRun(RunRead(InitialRow), CHOOSE r \in RunRequests : r.hostname = "h1",
          CreatedTables, TRUE, FALSE).db

\* The scheduler queues a rescheduled task instance again.
Requeue(row) == [row EXCEPT !.state = QUEUED]

\* The tables after the first worker rescheduled its task instance and the
\* scheduler queued it again.
RequeuedTables ==
    LET db == TiUpdateState(UpdateStateRead(StartedTables.ti),
                            CHOOSE r \in RescheduleRequests : TRUE,
                            StartedTables, 0, FALSE).db
    IN  [db EXCEPT !.ti = Requeue(@)]

\* The first request finds the task instance new, started or queued again.
Init ==
    /\ created \in {CreatedTables, StartedTables, RequeuedTables}
    /\ ti = created.ti
    /\ triggers = created.triggers
    /\ reschedules = created.reschedules
    /\ dagRunExists = TRUE
    /\ lock = 0
    /\ calls = [c \in Calls |-> Idle]
    /\ now = 0
    /\ order = <<>>
    /\ serial = created

\* A row lock that is granted to nobody.
RowLockNever(c) == lock = c

\* The locked read without with_for_update(): it never waits.
NoRowLock(c) == TRUE

\* with_for_update(): the locked read waits while another unit of work
\* holds the row.
RowLockFree(c) == lock = 0

\* A worker sends a request (requests are numbered as they are sent).
Issue(c, req) ==
    /\ calls[c].pc = "idle"
    /\ \A d \in Calls : d < c => calls[d].pc # "idle"
    /\ calls' = [calls EXCEPT ![c] = [Idle EXCEPT !.pc = "wait", !.req = req]]
    /\ UNCHANGED <<ti, triggers, reschedules, dagRunExists, lock, now, order, serial, created>>

\* The end of request c with the tables of r and its response; the same
\* request is run on the serial tables.
Finish(c, r, fail) ==
    LET s == Serially(calls[c].req, serial, now, dagRunExists, fail)
    IN  /\ ti' = r.db.ti
        /\ triggers' = r.db.triggers
        /\ reschedules' = r.db.reschedules
        /\ calls' = [calls EXCEPT ![c].pc = "done", ![c].out = r.out, ![c].ser = s.out]
        /\ order' = Append(order, c)
        /\ serial' = s.db

\* session.execute(old).one() raises NoResultFound: 404, nothing is locked.
SelectNotFound(c) ==
    /\ calls[c].pc = "wait"
    /\ calls[c].req.id # TI_ID
    /\ Finish(c, Result(Tables(ti, triggers, reschedules), NotFound), FALSE)
    /\ UNCHANGED <<dagRunExists, lock, now, created>>

\* session.execute(old).one() returns the row and holds its lock.
SelectForUpdate(c) ==
    /\ calls[c].pc = "wait"
    /\ calls[c].req.id = TI_ID
    /\ RowLockFree(c)
    /\ lock' = c
    /\ calls' = [calls EXCEPT ![c].pc = "locked",
                              ![c].prev = LockedRead(calls[c].req, ti)]
    /\ UNCHANGED <<ti, triggers, reschedules, dagRunExists, now, order, serial, created>>

\* The rest of a handler, to the end of its unit of work, which releases
\* the row lock. fail: the storage raises SQLAlchemyError.
Body(c, fail) ==
    /\ Finish(c, Handle(calls[c].prev, calls[c].req,
                         Tables(ti, triggers, reschedules), now, dagRunExists, fail),
              fail)
    /\ lock' = 0
    /\ UNCHANGED <<dagRunExists, now, created>>

\* In Spec the storage does not fail and the dag run of the row exists.
RunBody(c) ==
    /\ calls[c].pc = "locked"
    /\ calls[c].req.op = "run"
    /\ Body(c, FALSE)

UpdateStateBody(c) ==
    /\ calls[c].pc = "locked"
    /\ calls[c].req.op = "update"
    /\ Body(c, FALSE)

HeartbeatBody(c) ==
    /\ calls[c].pc = "locked"
    /\ calls[c].req.op = "heartbeat"
    /\ Body(c, FALSE)

\* The clock advances.
Tick ==
    /\ now < MaxTime
    /\ now' = now + 1
    /\ UNCHANGED <<ti, triggers, reschedules, dagRunExists, lock, calls, order, serial, created>>

Next ==
    \/ \E c \in Calls : \E req \in Requests : Issue(c, req)
    \/ \E c \in Calls : SelectNotFound(c)
    \/ \E c \in Calls : SelectForUpdate(c)
    \/ \E c \in Calls : RunBody(c)
    \/ \E c \in Calls : UpdateStateBody(c)
    \/ \E c \in Calls : HeartbeatBody(c)
    \/ Tick

Spec == Init /\ [][Next]_vars

\* ------------------------------------------------------------------ faults
\* The dag run (dag_id, run_id) of the row does not exist.
InitNoRun ==
    /\ created \in {CreatedTables, StartedTables, RequeuedTables}
    /\ ti = created.ti
    /\ triggers = created.triggers
    /\ reschedules = created.reschedules
    /\ dagRunExists = FALSE
    /\ lock = 0
    /\ calls = [c \in Calls |-> Idle]
    /\ now = 0
    /\ order = <<>>
    /\ serial = created

SpecNoRun == InitNoRun /\ [][Next]_vars

\* ti_run whose statements may raise SQLAlchemyError.
RunBodyFault(c) ==
    /\ calls[c].pc = "locked"
    /\ calls[c].req.op = "run"
    /\ \E fail \in BOOLEAN : Body(c, fail)

\* ti_update_state whose statement may raise SQLAlchemyError.
UpdateStateBodyFault(c) ==
    /\ calls[c].pc = "locked"
    /\ calls[c].req.op = "update"
    /\ \E fail \in BOOLEAN : Body(c, fail)

NextFault ==
    \/ \E c \in Calls : \E req \in Requests : Issue(c, req)
    \/ \E c \in Calls : SelectNotFound(c)
    \/ \E c \in Calls : SelectForUpdate(c)
    \/ \E c \in Calls : RunBodyFault(c)
    \/ \E c \in Calls : UpdateStateBodyFault(c)
    \/ \E c \in Calls : HeartbeatBody(c)
    \/ Tick

SpecFault == Init /\ [][NextFault]_vars

\* ------------------------------------------------------------------ fairness
\* Every request that can take its next step does so: the server schedules
\* every handler, and the store grants a free row lock to a waiting request.
Fairness ==
    \A c \in Calls :
        /\ WF_vars(SelectNotFound(c))
        /\ WF_vars(SelectForUpdate(c))
        /\ WF_vars(RunBody(c))
        /\ WF_vars(UpdateStateBody(c))
        /\ WF_vars(HeartbeatBody(c))

SpecFair == Init /\ [][Next]_vars /\ Fairness

\* ------------------------------------------------------------------ claims
DoneCalls == {c \in Calls : calls[c].pc = "done"}
IssuedCalls == {c \in Calls : calls[c].pc # "idle"}
OnRow(c) == calls[c].req.id = TI_ID
IsRun(c) == calls[c].req.op = "run"
IsHeartbeat(c) == calls[c].req.op = "heartbeat"
IsUpdate(c) == calls[c].req.op = "update"
IsKind(c, kind) == IsUpdate(c) /\ calls[c].req.kind = kind

\* Request c ends its unit of work in this step.
Ends(c) == calls[c].pc # "done" /\ calls'[c].pc = "done"

\* The stored holder identity is the worker of request c.
HeldBy(row, c) ==
    /\ row.hostname = Some(calls[c].req.hostname)
    /\ row.unixname = Some(calls[c].req.unixname)
    /\ row.pid = Some(calls[c].req.pid)

\* C1: when a QUEUED task instance gets only start-run requests, any number
\* of them at once, then as soon as one of them has ended exactly one has
\* succeeded; every other one that has ended got 409 invalid_state with
\* previous_state RUNNING; and the row is RUNNING, without end date, with
\* the hostname, unixname and pid of the one that succeeded.
C1_ExactlyOneStart ==
    (created.ti.state = QUEUED /\ \A c \in IssuedCalls : IsRun(c) /\ OnRow(c)) =>
        LET won == {c \in DoneCalls : calls[c].out.code = 200}
        IN  /\ DoneCalls # {} => Cardinality(won) = 1
            /\ \A c \in DoneCalls \ won :
                   calls[c].out =
                       Conflict("invalid_state", [previous_state |-> RUNNING])
            /\ \A c \in won :
                   /\ ti.state = RUNNING
                   /\ ti.end_date = NULL
                   /\ HeldBy(ti, c)

\* Two start-run requests of different workers on a task instance that was
\* queued again with the end date of its last try: the second to be sent
\* has won and the first has lost.
C1_Witness ==
    /\ created = RequeuedTables
    /\ created.ti.end_date # NULL
    /\ \A c \in {1, 2} : IsRun(c) /\ OnRow(c) /\ calls[c].pc = "done"
    /\ calls[1].req.hostname # calls[2].req.hostname
    /\ order = <<2, 1>>
    /\ calls[2].out.code = 200
    /\ calls[1].out.code = 409

\* C2: at every moment the stored tables (the row with its state, holder
\* identity, heartbeat time and continuation fields, the Trigger and the
\* reschedule records) and the response of every request that has ended are
\* those of the same requests run one after the other, each alone, in the
\* order in which their units of work ended.
C2_SerialEquivalence ==
    /\ Tables(ti, triggers, reschedules) = serial
    /\ \A c \in DoneCalls : calls[c].out = calls[c].ser

\* A heartbeat of the holder and a terminal update raced for the row lock:
\* both had been sent before either read the row, the update, sent second,
\* got the lock first, and the heartbeat was refused after it.
C2_Witness ==
    /\ created = StartedTables
    /\ IsHeartbeat(1) /\ OnRow(1) /\ IsKind(2, "terminal") /\ OnRow(2)
    /\ order = <<2, 1>>
    /\ calls[2].out.code = 204
    /\ calls[1].out.reason = "not_running"
    /\ ti.state \in TerminalStates

\* The caller of heartbeat c is the holder stored in row.
SameHolder(row, c) ==
    /\ row.hostname = Some(calls[c].req.hostname)
    /\ row.pid = Some(calls[c].req.pid)

\* C3 (as claimed): once the state is of the terminal set it never changes
\* again, and every start-run and update-state request that ends on such a
\* row is refused with a conflict.
C3_TerminalIsFinal ==
    [][ti.state \in TerminalStates =>
          /\ ti'.state = ti.state
          /\ \A c \in Calls :
                 Ends(c) /\ OnRow(c) /\ (IsRun(c) \/ IsUpdate(c)) =>
                     calls'[c].out.code = 409]_vars

\* C4 (as claimed): every change of the state is QUEUED to RUNNING by
\* start-run, or RUNNING to a terminal state, DEFERRED or UP_FOR_RESCHEDULE
\* by update-state; an update-state on a row that is not RUNNING changes no
\* state.
C4_OnlyLegalEdges ==
    [][ti'.state # ti.state =>
          \E c \in Calls :
              /\ Ends(c) /\ OnRow(c)
              /\ \/ IsRun(c) /\ ti.state = QUEUED /\ ti'.state = RUNNING
                 \/ /\ IsUpdate(c) /\ ti.state = RUNNING
                    /\ ti'.state \in TerminalStates \cup {DEFERRED, UP_FOR_RESCHEDULE}]_vars

\* C5 (as claimed): a heartbeat on a row that is not RUNNING is refused with
\* not_running, whoever sends it.
C5_NotRunningWhoeverCalls ==
    [][\A c \in Calls :
          Ends(c) /\ IsHeartbeat(c) /\ OnRow(c) /\ ti.state # RUNNING =>
              calls'[c].out.reason = "not_running"]_vars

\* C5 (amended): a heartbeat on a row that is not RUNNING is refused with a
\* conflict and changes nothing: not_running, with the current state, when
\* the caller is the stored holder; running_elsewhere when it is not.
C5_NotRunningForHolder ==
    [][\A c \in Calls :
          Ends(c) /\ IsHeartbeat(c) /\ OnRow(c) /\ ti.state # RUNNING =>
              /\ calls'[c].out.code = 409
              /\ ti' = ti
              /\ SameHolder(ti, c) =>
                     calls'[c].out = Conflict("not_running", [current_state |-> ti.state])
              /\ ~SameHolder(ti, c) => calls'[c].out.reason = "running_elsewhere"]_vars

\* The holder of a task instance that was queued again heartbeats and is
\* told not_running.
C5_Witness ==
    \E c \in DoneCalls :
        /\ IsHeartbeat(c) /\ OnRow(c)
        /\ ti.state # RUNNING
        /\ SameHolder(ti, c)
        /\ calls[c].out.reason = "not_running"

\* C6: a heartbeat whose hostname or pid differs from the stored holder is
\* refused with running_elsewhere and leaves last_heartbeat_at as it was,
\* whatever the state of the row.
C6_RunningElsewhere ==
    [][\A c \in Calls :
          Ends(c) /\ IsHeartbeat(c) /\ OnRow(c) /\ ~SameHolder(ti, c) =>
              /\ calls'[c].out.code = 409
              /\ calls'[c].out.reason = "running_elsewhere"
              /\ ti'.last_heartbeat_at = ti.last_heartbeat_at]_vars

\* Another process of the holder's host heartbeats a RUNNING row and is
\* refused.
C6_Witness ==
    \E c \in DoneCalls :
        /\ IsHeartbeat(c) /\ OnRow(c)
        /\ ti.state = RUNNING
        /\ ti.hostname = Some(calls[c].req.hostname)
        /\ ti.pid # Some(calls[c].req.pid)
        /\ calls[c].out.reason = "running_elsewhere"
        /\ ti.last_heartbeat_at = NULL

\* C7 (as claimed): a heartbeat of the stored holder on a RUNNING row
\* succeeds and leaves last_heartbeat_at strictly greater than it was.
C7_HeartbeatStrictlyAdvances ==
    [][\A c \in Calls :
          Ends(c) /\ IsHeartbeat(c) /\ OnRow(c) /\ ti.state = RUNNING
                  /\ SameHolder(ti, c) =>
              /\ calls'[c].out.code = 204
              /\ ti'.last_heartbeat_at # NULL
              /\ ti.last_heartbeat_at # NULL =>
                     ti'.last_heartbeat_at[1] > ti.last_heartbeat_at[1]]_vars

\* C7 (amended): a heartbeat of the stored holder on a RUNNING row succeeds
\* and sets last_heartbeat_at to the reading of the clock taken under the
\* row lock, which, the clock never going back, is not less than the value
\* it replaces (and equal to it when the clock has not advanced since).
C7_HeartbeatRecordsNow ==
    [][\A c \in Calls :
          Ends(c) /\ IsHeartbeat(c) /\ OnRow(c) /\ ti.state = RUNNING
                  /\ SameHolder(ti, c) =>
              /\ calls'[c].out.code = 204
              /\ ti'.last_heartbeat_at = Some(now)
              /\ ti.last_heartbeat_at # NULL =>
                     ti'.last_heartbeat_at[1] >= ti.last_heartbeat_at[1]]_vars

\* The holder's heartbeat on a RUNNING row was accepted after the clock had
\* advanced.
C7_Witness ==
    \E c \in DoneCalls :
        /\ IsHeartbeat(c) /\ OnRow(c)
        /\ calls[c].out.code = 204
        /\ ti.state = RUNNING /\ SameHolder(ti, c)
        /\ now > 0
        /\ ti.last_heartbeat_at = Some(now)

\* C8 (as claimed): a successful deferred update-state adds exactly one
\* Trigger and leaves the row DEFERRED with trigger_id the identifier of
\* that Trigger, never NULL.
C8_TriggerLinked ==
    [][\A c \in Calls :
          Ends(c) /\ IsKind(c, "deferred") /\ OnRow(c) /\ calls'[c].out.code = 204 =>
              /\ Len(triggers') = Len(triggers) + 1
              /\ ti'.state = DEFERRED
              /\ ti'.trigger_id # NULL
              /\ ti'.trigger_id = triggers'[Len(triggers')].id]_vars

\* C9 (as claimed): after k successful deferred update-state requests there
\* are k Triggers, with distinct identifiers, and while the row is DEFERRED
\* its trigger_id is the identifier of the last of them.
C9_TriggerPerDeferral ==
    LET k == Cardinality({c \in DoneCalls :
                 IsKind(c, "deferred") /\ OnRow(c) /\ calls[c].out.code = 204})
    IN  /\ Len(triggers) = k
        /\ \A i, j \in 1..Len(triggers) : triggers[i].id = triggers[j].id => i = j
        /\ k > 0 /\ ti.state = DEFERRED => ti.trigger_id = triggers[Len(triggers)].id

\* C10 (as claimed): next_method and next_kwargs are set only while the
\* state is DEFERRED.
C10_ContinuationOnlyDeferred ==
    (ti.next_method # NULL \/ ti.next_kwargs # NULL) => ti.state = DEFERRED

\* Request c, on the row, ends in this step with a success.
Succeeds(c) == Ends(c) /\ OnRow(c) /\ calls'[c].out.code < 400

\* C11: a successful reschedule update-state adds exactly one reschedule
\* record, whose task_id, dag_id, run_id, try_number and map_index are those
\* of the row at the time of the call, and leaves the row UP_FOR_RESCHEDULE
\* with next_method and next_kwargs NULL; no step changes or removes a
\* reschedule record that exists.
C11_RescheduleRecord ==
    [][/\ Len(reschedules') >= Len(reschedules)
       /\ SubSeq(reschedules', 1, Len(reschedules)) = reschedules
       /\ \A c \in Calls :
              Succeeds(c) /\ IsKind(c, "reschedule") =>
                  /\ Len(reschedules') = Len(reschedules) + 1
                  /\ LET r == reschedules'[Len(reschedules')]
                     IN  /\ r.task_id = ti.task_id
                         /\ r.dag_id = ti.dag_id
                         /\ r.run_id = ti.run_id
                         /\ r.try_number = ti.try_number
                         /\ r.map_index = ti.map_index
                  /\ ti'.state = UP_FOR_RESCHEDULE
                  /\ ti'.next_method = NULL
                  /\ ti'.next_kwargs = NULL]_vars

\* A task instance with a reschedule record of an earlier try was deferred
\* and then rescheduled: a second record, the continuation cleared.
C11_Witness ==
    /\ created = RequeuedTables
    /\ order = <<1, 2>>
    /\ IsKind(1, "deferred") /\ OnRow(1) /\ calls[1].out.code = 204
    /\ IsKind(2, "reschedule") /\ OnRow(2) /\ calls[2].out.code = 204
    /\ Len(reschedules) = 2
    /\ ti.state = UP_FOR_RESCHEDULE
    /\ ti.next_method = NULL

\* C12: after a successful terminal update-state with state FAILED,
\* next_method and next_kwargs are NULL, whatever they were before.
C12_FailedClearsContinuation ==
    [][\A c \in Calls :
          Succeeds(c) /\ IsKind(c, "terminal") /\ calls[c].req.state = FAILED =>
              /\ ti'.state = FAILED
              /\ ti'.next_method = NULL
              /\ ti'.next_kwargs = NULL]_vars

\* A deferral set the continuation fields and the FAILED update that
\* followed it cleared them.
C12_Witness ==
    /\ order = <<1, 2>>
    /\ IsKind(1, "deferred") /\ OnRow(1) /\ calls[1].out.code = 204
    /\ IsKind(2, "terminal") /\ OnRow(2) /\ calls[2].out.code = 204
    /\ calls[2].req.state = FAILED
    /\ ti.state = FAILED
    /\ ti.next_method = NULL /\ ti.next_kwargs = NULL

\* C13: a start-run on a row whose state is not QUEUED is refused with 409
\* invalid_state carrying that state as previous_state, and leaves the row
\* and the other tables as they were.
C13_StartRefusedUnlessQueued ==
    [][\A c \in Calls :
          Ends(c) /\ IsRun(c) /\ OnRow(c) /\ ti.state # QUEUED =>
              /\ calls'[c].out =
                     Conflict("invalid_state", [previous_state |-> ti.state])
              /\ ti' = ti
              /\ triggers' = triggers
              /\ reschedules' = reschedules]_vars

\* A start-run on a DEFERRED row, by a worker that is not its holder, was
\* refused and told the state.
C13_Witness ==
    \E c \in DoneCalls :
        /\ IsRun(c) /\ OnRow(c)
        /\ ti.state = DEFERRED
        /\ ~HeldBy(ti, c)
        /\ calls[c].out = Conflict("invalid_state", [previous_state |-> DEFERRED])

\* C14: a start-run on a QUEUED row whose dag run does not exist fails with
\* an internal error, not with not-found and not with a conflict, and
\* leaves the row QUEUED with the holder identity and the end date it had:
\* the update to RUNNING executed before the lookup is rolled back.
C14_MissingRunIsInternalError ==
    [][\A c \in Calls :
          Ends(c) /\ IsRun(c) /\ OnRow(c) /\ ti.state = QUEUED /\ ~dagRunExists =>
              /\ calls'[c].out = InternalError
              /\ calls'[c].out.code \notin {404, 409}
              /\ ti'.state = QUEUED
              /\ ti'.hostname = ti.hostname
              /\ ti'.unixname = ti.unixname
              /\ ti'.pid = ti.pid
              /\ ti'.end_date = ti.end_date]_vars

\* The second worker tried to start the task instance that the first had
\* rescheduled: internal error, and the row keeps the first worker and the
\* end date of the last try.
C14_Witness ==
    /\ ~dagRunExists
    /\ created = RequeuedTables
    /\ \E c \in DoneCalls :
           /\ IsRun(c) /\ OnRow(c)
           /\ calls[c].req.hostname = "h2"
           /\ calls[c].out = InternalError
    /\ ti.state = QUEUED
    /\ ti.hostname = Some("h1")
    /\ ti.end_date # NULL
    /\ ti = created.ti

\* The update-state requests of a kind that have committed.
Committed(kind) ==
    {c \in DoneCalls : IsKind(c, kind) /\ OnRow(c) /\ calls[c].out.code = 204}

\* C15: in every state the Trigger records are as many as the deferred
\* transitions that committed and the reschedule records as many as the
\* reschedule transitions that committed (each counted from what the first
\* request found), so an update-state that fails, on a missing row or on a
\* storage failure, leaves no record behind.
C15_NoOrphanRecords ==
    /\ Len(triggers) = Len(created.triggers) + Cardinality(Committed("deferred"))
    /\ Len(reschedules) =
           Len(created.reschedules) + Cardinality(Committed("reschedule"))

\* A deferral and a reschedule both failed in the storage, and one
\* update-state found no row: the tables are as they were.
C15_Witness ==
    /\ \E c \in DoneCalls :
           IsKind(c, "deferred") /\ OnRow(c) /\ calls[c].out = InternalError
    /\ \E c \in DoneCalls :
           IsKind(c, "reschedule") /\ OnRow(c) /\ calls[c].out = InternalError
    /\ triggers = created.triggers
    /\ reschedules = created.reschedules
    /\ ti = created.ti

\* C16: a successful terminal update-state with state s and end date t on a
\* row with start date d leaves the row with state s, end date t and
\* duration t - d, and with the hostname, pid and last_heartbeat_at it had.
C16_TerminalDuration ==
    [][\A c \in Calls :
          Succeeds(c) /\ IsKind(c, "terminal") /\ ti.start_date # NULL =>
              /\ ti'.state = calls[c].req.state
              /\ ti'.end_date = Some(calls[c].req.end_date)
              /\ ti'.duration = Some(calls[c].req.end_date - ti.start_date[1])
              /\ ti'.hostname = ti.hostname
              /\ ti'.pid = ti.pid
              /\ ti'.last_heartbeat_at = ti.last_heartbeat_at]_vars

\* A task instance started at 1, whose holder sent a heartbeat, was marked
\* SUCCESS with end date 3: duration 2, holder and heartbeat kept.
C16_Witness ==
    /\ order = <<1, 2>>
    /\ IsHeartbeat(1) /\ OnRow(1) /\ calls[1].out.code = 204
    /\ IsKind(2, "terminal") /\ OnRow(2) /\ calls[2].out.code = 204
    /\ calls[2].req.state = SUCCESS
    /\ ti.state = SUCCESS
    /\ ti.start_date = Some(1)
    /\ ti.end_date = Some(3)
    /\ ti.duration = Some(2)
    /\ ti.hostname = Some("h1")
    /\ ti.last_heartbeat_at # NULL

\* C17: the stored hostname and pid change only in the step that ends a
\* successful start-run, which sets them to those of its caller; no step
\* that ends a heartbeat or an update-state changes them.
C17_HolderSetOnlyByStart ==
    [][/\ (ti'.hostname # ti.hostname \/ ti'.pid # ti.pid) =>
              \E c \in Calls :
                  /\ Ends(c) /\ IsRun(c) /\ OnRow(c)
                  /\ calls'[c].out.code = 200
                  /\ HeldBy(ti', c)
       /\ \A c \in Calls :
              Ends(c) /\ (IsHeartbeat(c) \/ IsUpdate(c)) =>
                  ti'.hostname = ti.hostname /\ ti'.pid = ti.pid]_vars

\* The second worker started the task instance that the first had held,
\* then the first sent a heartbeat: refused, the second is still the holder.
C17_Witness ==
    /\ created = RequeuedTables
    /\ order = <<1, 2>>
    /\ IsRun(1) /\ OnRow(1) /\ calls[1].req.hostname = "h2"
    /\ calls[1].out.code = 200
    /\ IsHeartbeat(2) /\ OnRow(2) /\ calls[2].req.hostname = "h1"
    /\ calls[2].out.code = 409
    /\ ti.state = RUNNING
    /\ HeldBy(ti, 1)

\* C18: the step that ends a heartbeat adds no Trigger and no TaskReschedule
\* and changes no column of the row but last_heartbeat_at; when the
\* heartbeat is refused (404 or 409) it changes nothing.
C18_HeartbeatFrame ==
    [][\A c \in Calls :
          Ends(c) /\ IsHeartbeat(c) =>
              /\ triggers' = triggers
              /\ reschedules' = reschedules
              /\ [ti' EXCEPT !.last_heartbeat_at = ti.last_heartbeat_at] = ti
              /\ calls'[c].out.code # 204 => ti' = ti]_vars

\* An accepted heartbeat moved last_heartbeat_at and a second heartbeat was
\* refused.
C18_Witness ==
    /\ DoneCalls = Calls
    /\ \A c \in Calls : IsHeartbeat(c)
    /\ calls[1].out.code = 204
    /\ ti.last_heartbeat_at = Some(MaxTime)
    /\ calls[2].out.code \in {404, 409}
    /\ ti.state = RUNNING

\* The place of a request that has ended among those that have ended.
Pos(c) == CHOOSE i \in 1..Len(order) : order[i] = c

\* An update-state found the row RUNNING and committed, and no start-run
\* has succeeded since.
StoppedRunning ==
    \E u \in DoneCalls :
        /\ IsUpdate(u) /\ OnRow(u)
        /\ calls[u].prev.state = RUNNING
        /\ calls[u].out.code = 204
        /\ ~\E r \in DoneCalls :
               IsRun(r) /\ calls[r].out.code = 200 /\ Pos(r) > Pos(u)

\* C19: once an update-state on a RUNNING row has committed and until a
\* start-run succeeds, a heartbeat of the stored holder that ends is
\* answered 409 not_running and writes nothing, whether it was sent before
\* or after the update: a heartbeat that races the update is never
\* recorded after it.
C19_NoHeartbeatAfterUpdate ==
    [][\A h \in Calls :
          Ends(h) /\ IsHeartbeat(h) /\ OnRow(h) /\ SameHolder(ti, h) /\ StoppedRunning =>
              /\ calls'[h].out =
                     Conflict("not_running", [current_state |-> ti.state])
              /\ ti' = ti]_vars

\* The holder's heartbeat was sent first, a reschedule of the RUNNING row
\* overtook it, and the heartbeat was refused and left no trace.
C19_Witness ==
    /\ created = StartedTables
    /\ order = <<2, 1>>
    /\ IsKind(2, "reschedule") /\ OnRow(2)
    /\ calls[2].prev.state = RUNNING /\ calls[2].out.code = 204
    /\ IsHeartbeat(1) /\ OnRow(1) /\ SameHolder(ti, 1)
    /\ calls[1].out =
           Conflict("not_running", [current_state |-> UP_FOR_RESCHEDULE])
    /\ ti.last_heartbeat_at = created.ti.last_heartbeat_at

\* C20: a request holds at most the one row lock, and holds it exactly
\* from its locked read to the end of its unit of work; under fair
\* scheduling every request that asks for the lock gets it, ends (commit or
\* rollback) and no longer holds the lock.
C20_NoDeadlock ==
    /\ [](\A c \in Calls : (lock = c) <=> (calls[c].pc = "locked"))
    /\ \A c \in Calls :
           (calls[c].pc = "wait") ~> (calls[c].pc = "done" /\ lock # c)

\* The second request took the row lock while the first waited, ended and
\* released it, and the first now holds it.
C20_Witness ==
    /\ OnRow(1) /\ OnRow(2)
    /\ order = <<2>>
    /\ calls[2].pc = "done"
    /\ calls[1].pc = "locked"
    /\ lock = 1

====
